---- MODULE Spec2Model ----
(***************************************************************************)
(* RetroCare voice anomaly detection service                               *)
(*   main.py            the FastAPI application: lifespan, /health,        *)
(*                      /embed, /compare                                   *)
(*   utils/scoring.py   cosine_similarity, similarity_to_anomaly,          *)
(*                      apply_noise_normalization, apply_time_compensation *)
(*   utils/audio.py     load_model, get_embedding, compute_snr             *)
(*                                                                         *)
(* Numbers.  Python floats are modelled as fixed-point integers:           *)
(*   a score or similarity v is the integer v * ScoreUnit,                 *)
(*   an snr of d dB is the integer d * SnrUnit,                            *)
(*   a Euclidean norm n is the integer round(n * NormScale).               *)
(* ScoreUnit is chosen so that every product and quotient the scoring      *)
(* functions compute on a value of the similarity grid is exact; the only  *)
(* roundings are those of the norm and of the quotient in                  *)
(* cosine_similarity, the place where the code itself expects floating     *)
(* point overshoot.                                                        *)
(* Optional[int] is a sequence of length at most one: None is <<>>.        *)
(***************************************************************************)
EXTENDS Integers, Sequences, FiniteSets

VARIABLES
    phase,                \* "starting" before lifespan's startup ran, then "serving"
    model_loaded,         \* utils.audio._model_loaded
    model_loading_error,  \* main._model_loading_error ("None" or the message)
    routes,               \* {route.path for route in app.routes}
    call,                 \* the operation being served, with its arguments ("idle": none)
    result,               \* what it returned or raised
    trace                 \* the calls the handler made, in order

vars == <<phase, model_loaded, model_loading_error, routes, call, result, trace>>

----------------------------------------------------------------------------
(* Resolution of the fixed-point numbers and size of the inputs.           *)

\* half-decibel resolution for snr values
SnrUnit == 2
\* cosine similarities are multiples of 1/SimScale
SimScale == 100
\* norms are multiples of 1/NormScale
NormScale == 10
\* embeddings have 0..MaxDim components
MaxDim == 2
\* snr arguments of the library calls range over -SnrPad .. 30+SnrPad dB
SnrPad == 50
\* hour arguments of the library calls range over -HourPad .. 23+HourPad
HourPad == 2
\* a magnitude grid has 1..MaxBins bins
MaxBins == 3

----------------------------------------------------------------------------
(* Program constants.                                                      *)

\* scoring.py:91  if snr < 15.0   (and the 15.0 of line 95)
SnrThreshold == 15
\* scoring.py:95  0.25 = 1 / 4
NoiseQuarter == 4
\* scoring.py:128  6 <= hour <= 9
MorningStart == 6
MorningEnd == 9
\* scoring.py:129  anomaly_score * 0.08
MorningPct == 8
\* scoring.py:134  18 <= hour <= 21
EveningStart == 18
EveningEnd == 21
\* scoring.py:135  anomaly_score * 0.06
EveningPct == 6
\* audio.py:178  max(0.0, min(30.0, snr_db))
SnrMin == 0
SnrMax == 30
\* audio.py:186  return 15.0
DefaultSnr == 15
\* audio.py:163  np.percentile(magnitude_flat, 20)
NoisePercentile == 20
\* audio.py:170  noise_power = 1e-10: ten decades
NoiseFloorDecades == 10

\* one unit of score: 1.0
ScoreUnit == NoiseQuarter * SnrThreshold * SnrUnit * 100 * SimScale
\* one step of the similarity grid
SimStep == ScoreUnit \div SimScale

None == <<>>
Some(x) == <<x>>

----------------------------------------------------------------------------
(* Arithmetic helpers.                                                     *)

Max(a, b) == IF a >= b THEN a ELSE b
Min(a, b) == IF a <= b THEN a ELSE b

\* a / b rounded to the nearest integer, b > 0
RoundDiv(a, b) ==
    IF a >= 0 THEN (2 * a + b) \div (2 * b)
    ELSE 0 - ((2 * (0 - a) + b) \div (2 * b))

RECURSIVE IsqrtFrom(_, _)
IsqrtFrom(n, r) == IF (r + 1) * (r + 1) > n THEN r ELSE IsqrtFrom(n, r + 1)
\* floor(sqrt(n))
Isqrt(n) == IsqrtFrom(n, 0)

RECURSIVE SumSeq(_)
SumSeq(s) == IF s = <<>> THEN 0 ELSE Head(s) + SumSeq(Tail(s))

Returned(v) == [kind |-> "return", value |-> v]
Raised(e) == [kind |-> "raise", exc |-> e]

----------------------------------------------------------------------------
(* utils/scoring.py                                                        *)

\* np.dot(emb1, emb2), equal shapes
Dot(a, b) == SumSeq([i \in 1..Len(a) |-> a[i] * b[i]])

\* np.linalg.norm(emb), rounded to the norm grid
Norm(a) == (Isqrt(4 * Dot(a, a) * NormScale * NormScale) + 1) \div 2

\* max(-1.0, min(1.0, similarity))
ClampSimilarity(s) == Max(0 - ScoreUnit, Min(ScoreUnit, s))

\* variant: the shapes are not compared, the longer embedding is cut to the shorter
cosine_similarity_truncating(embedding1, embedding2) ==
    LET n == Min(Len(embedding1), Len(embedding2))
        e1 == SubSeq(embedding1, 1, n)
        e2 == SubSeq(embedding2, 1, n)
        norm1 == Norm(e1)
        norm2 == Norm(e2)
    IN  IF norm1 = 0 \/ norm2 = 0
        THEN Returned(0)
        ELSE Returned(ClampSimilarity(
                 SimStep * RoundDiv(Dot(e1, e2) * NormScale * NormScale * SimScale,
                                    norm1 * norm2)))

\* variant: no zero-norm test; 0/0 is nan, which min(1.0, nan) turns into 1.0
cosine_similarity_dividing(embedding1, embedding2) ==
    IF Len(embedding1) # Len(embedding2)
    THEN Raised("ValueError")
    ELSE LET norm1 == Norm(embedding1)
             norm2 == Norm(embedding2)
         IN  IF norm1 = 0 \/ norm2 = 0
             THEN Returned(ScoreUnit)
             ELSE Returned(ClampSimilarity(
                      SimStep * RoundDiv(Dot(embedding1, embedding2)
                                             * NormScale * NormScale * SimScale,
                                         norm1 * norm2)))

cosine_similarity(embedding1, embedding2) ==
    IF Len(embedding1) # Len(embedding2)
    THEN Raised("ValueError")
    ELSE LET dot_product == Dot(embedding1, embedding2)
             norm1 == Norm(embedding1)
             norm2 == Norm(embedding2)
         IN  IF norm1 = 0 \/ norm2 = 0
             THEN Returned(0)
             ELSE LET similarity ==
                          SimStep * RoundDiv(dot_product * NormScale * NormScale * SimScale,
                                             norm1 * norm2)
                  IN  Returned(ClampSimilarity(similarity))

similarity_to_anomaly(similarity) ==
    LET anomaly == ScoreUnit - similarity
    IN  Max(0, Min(ScoreUnit, anomaly))

\* variant: the result is not floored at zero
apply_noise_normalization_unfloored(anomaly_score, snr) ==
    IF snr < SnrThreshold * SnrUnit
    THEN anomaly_score - (anomaly_score * (SnrThreshold * SnrUnit - snr))
                             \div (NoiseQuarter * SnrThreshold * SnrUnit)
    ELSE anomaly_score

apply_noise_normalization(anomaly_score, snr) ==
    IF snr < SnrThreshold * SnrUnit
    THEN LET reduction == (anomaly_score * (SnrThreshold * SnrUnit - snr))
                              \div (NoiseQuarter * SnrThreshold * SnrUnit)
             normalized == anomaly_score - reduction
         IN  Max(0, normalized)
    ELSE anomaly_score

\* variant: the reduction is added instead of subtracted
apply_time_compensation_adding(anomaly_score, hour) ==
    IF hour = None
    THEN anomaly_score
    ELSE IF MorningStart <= hour[1] /\ hour[1] <= MorningEnd
    THEN Max(0, anomaly_score + (anomaly_score * MorningPct) \div 100)
    ELSE IF EveningStart <= hour[1] /\ hour[1] <= EveningEnd
    THEN Max(0, anomaly_score + (anomaly_score * EveningPct) \div 100)
    ELSE anomaly_score

\* variant: the windows exclude their last hour
apply_time_compensation_exclusive(anomaly_score, hour) ==
    IF hour = None
    THEN anomaly_score
    ELSE IF MorningStart <= hour[1] /\ hour[1] < MorningEnd
    THEN Max(0, anomaly_score - (anomaly_score * MorningPct) \div 100)
    ELSE IF EveningStart <= hour[1] /\ hour[1] < EveningEnd
    THEN Max(0, anomaly_score - (anomaly_score * EveningPct) \div 100)
    ELSE anomaly_score

apply_time_compensation(anomaly_score, hour) ==
    IF hour = None
    THEN anomaly_score
    ELSE LET h == hour[1]
         IN  IF MorningStart <= h /\ h <= MorningEnd
             THEN LET reduction == (anomaly_score * MorningPct) \div 100
                      compensated == anomaly_score - reduction
                  IN  Max(0, compensated)
             ELSE IF EveningStart <= h /\ h <= EveningEnd
             THEN LET reduction == (anomaly_score * EveningPct) \div 100
                      compensated == anomaly_score - reduction
                  IN  Max(0, compensated)
             ELSE anomaly_score

----------------------------------------------------------------------------
(* utils/audio.py: compute_snr                                             *)
(* librosa.stft and np.abs are library code: an audio input is modelled by *)
(* what they make of it, either an exception (malformed input, transform   *)
(* failure) or the flattened grid of magnitudes.                           *)

Range(s) == {s[i] : i \in 1..Len(s)}

\* sorted(m)[k + 1], k counted from 0
KthSmallest(m, k) ==
    CHOOSE v \in Range(m) :
        /\ Cardinality({i \in 1..Len(m) : m[i] <= v}) >= k + 1
        /\ Cardinality({i \in 1..Len(m) : m[i] < v}) <= k

\* 100 * np.percentile(m, q): linear interpolation between the order statistics
Percentile100(m, q) ==
    LET n == Len(m)
        lo == (q * (n - 1)) \div 100
        hi == Min(lo + 1, n - 1)
        frac100 == q * (n - 1) - 100 * lo
    IN  100 * KthSmallest(m, lo) + frac100 * (KthSmallest(m, hi) - KthSmallest(m, lo))

\* 10^(j/10) * 1000 for j = 0..9
DecibelTable == <<1000, 1259, 1585, 1995, 2512, 3162, 3981, 5012, 6310, 7943>>

\* log10(0) = -inf: below every clamp bound
MinusInfinity == 0 - 1000 * 1000

RECURSIVE Log10Db(_, _)
\* 10 * np.log10(num / den) in whole dB (rounded down), num > 0, den > 0
Log10Db(num, den) ==
    IF num >= 10 * den THEN 10 + Log10Db(num, 10 * den)
    ELSE IF num < den THEN Log10Db(10 * num, den) - 10
    ELSE CHOOSE j \in 0..9 :
             /\ 1000 * num >= DecibelTable[j + 1] * den
             /\ j < 9 => 1000 * num < DecibelTable[j + 2] * den

\* max(0.0, min(30.0, snr_db))
ClampSnr(snr_db) == Max(SnrMin * SnrUnit, Min(SnrMax * SnrUnit, snr_db))

\* variant: the exception of the transform is raised again
compute_snr_reraising(audio) ==
    IF ~audio.stft_ok
    THEN Raised("ParameterError")
    ELSE Returned(DefaultSnr * SnrUnit)

compute_snr(audio) ==
    IF ~audio.stft_ok
    THEN Returned(DefaultSnr * SnrUnit)             \* except Exception
    ELSE LET magnitude_flat == audio.magnitude
             n == Len(magnitude_flat)
             noise_threshold100 == Percentile100(magnitude_flat, NoisePercentile)
             quiet == {i \in 1..n : 100 * magnitude_flat[i] <= noise_threshold100}
             \* noise_power = noise_sum / Cardinality(quiet)
             noise_sum == SumSeq([i \in 1..n |->
                              IF i \in quiet THEN magnitude_flat[i] * magnitude_flat[i] ELSE 0])
             \* signal_power = signal_sum / n
             signal_sum == SumSeq([i \in 1..n |-> magnitude_flat[i] * magnitude_flat[i]])
             \* magnitudes are integers here: noise_power < 1e-10 iff it is 0
             snr_db == IF signal_sum = 0
                       THEN MinusInfinity
                       ELSE IF noise_sum = 0
                       THEN 10 * NoiseFloorDecades + Log10Db(signal_sum, n)
                       ELSE Log10Db(signal_sum * Cardinality(quiet), n * noise_sum)
         IN  Returned(ClampSnr(SnrUnit * snr_db))

----------------------------------------------------------------------------
(* utils/audio.py: the model handle                                        *)

\* load_model(): True once EncoderClassifier.from_hparams returned; from_hparams_ok
\* is whether the download and construction of the model succeed
load_model(loaded, from_hparams_ok) ==
    IF loaded THEN [loaded |-> TRUE, raised |-> FALSE]
    ELSE IF from_hparams_ok THEN [loaded |-> TRUE, raised |-> FALSE]
    ELSE [loaded |-> FALSE, raised |-> TRUE]

----------------------------------------------------------------------------
(* main.py                                                                 *)

\* FastAPI(...) with its default openapi_url, docs_url and redoc_url
FrameworkRoutes == {"/openapi.json", "/docs", "/docs/oauth2-redirect", "/redoc"}
\* @app.get("/health"), @app.post("/embed"), @app.post("/compare")
DecoratedRoutes == {"/health", "/embed", "/compare"}
AppRoutes == FrameworkRoutes \cup DecoratedRoutes

Response(status, detail, body) == [status |-> status, detail |-> detail, body |-> body]
HTTPException(status, detail) == Response(status, detail, None)

Called(fn, arg, ret) == [fn |-> fn, arg |-> arg, ret |-> ret]

\* variant: time compensation runs before noise normalization
compare_embeddings_time_first(request) ==
    IF Len(request.baseline) # Len(request.current)
    THEN [response |-> HTTPException(500, "Failed to compare embeddings"), calls |-> <<>>]
    ELSE
    LET cos == cosine_similarity(request.baseline, request.current)
        similarity == cos.value
        anomaly_score == similarity_to_anomaly(similarity)
        time_score == IF request.hour # None
                      THEN apply_time_compensation(anomaly_score, request.hour)
                      ELSE anomaly_score
        normalized_score == apply_noise_normalization(time_score, request.snr)
    IN  [response |-> Response(200, "OK",
                          Some([score |-> normalized_score,
                                raw_similarity |-> similarity,
                                normalized |-> normalized_score,
                                snr |-> request.snr])),
         calls |-> <<Called("cosine_similarity",
                            <<request.baseline, request.current>>, cos),
                     Called("similarity_to_anomaly", similarity, anomaly_score)>>
                   \o (IF request.hour # None
                       THEN <<Called("apply_time_compensation", anomaly_score, time_score)>>
                       ELSE <<>>)
                   \o <<Called("apply_noise_normalization", time_score, normalized_score)>>]

\* the handler of POST /compare: its response and the calls it made
compare_embeddings(request) ==
    LET baseline == request.baseline
        current == request.current
    IN  IF Len(baseline) # Len(current)
        THEN [response |-> HTTPException(500, "Failed to compare embeddings"),
              calls |-> <<>>]
        ELSE
        LET cos == cosine_similarity(baseline, current)
            calls1 == <<Called("cosine_similarity", <<baseline, current>>, cos)>>
        IN  IF cos.kind = "raise"
            THEN [response |-> HTTPException(500, "Failed to compare embeddings"),
                  calls |-> calls1]
            ELSE
            LET similarity == cos.value
                anomaly_score == similarity_to_anomaly(similarity)
                calls2 == Append(calls1,
                              Called("similarity_to_anomaly", similarity, anomaly_score))
                noise_score == apply_noise_normalization(anomaly_score, request.snr)
                calls3 == Append(calls2,
                              Called("apply_noise_normalization", anomaly_score, noise_score))
                normalized_score ==
                    IF request.hour # None
                    THEN apply_time_compensation(noise_score, request.hour)
                    ELSE noise_score
                calls4 ==
                    IF request.hour # None
                    THEN Append(calls3,
                             Called("apply_time_compensation", noise_score, normalized_score))
                    ELSE calls3
            IN  [response |-> Response(200, "OK",
                                  Some([score |-> normalized_score,
                                        raw_similarity |-> similarity,
                                        normalized |-> normalized_score,
                                        snr |-> request.snr])),
                 calls |-> calls4]

\* get_embedding(waveform, sample_rate): the lazy load_model() of audio.py:110-111,
\* then the encoder; its outcome and the model flag it leaves
get_embedding(loaded, env) ==
    LET lazy == IF ~loaded THEN load_model(loaded, env.from_hparams_ok)
                ELSE [loaded |-> loaded, raised |-> FALSE]
    IN  IF lazy.raised
        THEN [outcome |-> Raised("Exception"), loaded |-> lazy.loaded]
        ELSE IF ~env.encode_ok
        THEN [outcome |-> Raised("Exception"), loaded |-> lazy.loaded]
        ELSE [outcome |-> Returned(env.embedding), loaded |-> lazy.loaded]

\* the body of extract_embedding from its try on (main.py:133-158)
embed_pipeline(request, loaded, env) ==
    LET calls1 == <<Called("load_audio_from_url", request.audio_url, env.download_ok)>>
    IN  IF ~env.download_ok
        THEN [response |-> HTTPException(500, "Failed to extract embedding"),
              calls |-> calls1, loaded |-> loaded]
        ELSE
        LET emb == get_embedding(loaded, env)
            calls2 == Append(calls1, Called("get_embedding", env.audio, emb.outcome))
        IN  IF emb.outcome.kind = "raise"
            THEN [response |-> HTTPException(500, "Failed to extract embedding"),
                  calls |-> calls2, loaded |-> emb.loaded]
            ELSE
            LET snr == compute_snr(env.audio)
                calls3 == Append(calls2, Called("compute_snr", env.audio, snr))
            IN  [response |-> Response(200, "OK",
                                  Some([embedding |-> emb.outcome.value,
                                        snr |-> snr.value,
                                        sample_rate |-> request.sample_rate])),
                 calls |-> calls3, loaded |-> emb.loaded]

ModelNotLoaded(loading_error) ==
    HTTPException(503, IF loading_error # "None" THEN "Model not loaded. Error"
                       ELSE "Model not loaded")

\* variant: the model is tested only after the audio was downloaded
extract_embedding_late_check(request, loaded, loading_error, env) ==
    IF ~env.download_ok
    THEN embed_pipeline(request, loaded, env)
    ELSE IF ~loaded
    THEN [response |-> ModelNotLoaded(loading_error),
          calls |-> <<Called("load_audio_from_url", request.audio_url, env.download_ok)>>,
          loaded |-> loaded]
    ELSE embed_pipeline(request, loaded, env)

\* variant: the model is not tested, get_embedding loads it when needed
extract_embedding_unguarded(request, loaded, loading_error, env) ==
    embed_pipeline(request, loaded, env)

\* the handler of POST /embed; env holds what the network, the model and the
\* transform do during this request.  Its response, the calls it made and the
\* model flag it leaves
extract_embedding(request, loaded, loading_error, env) ==
    IF ~loaded
    THEN [response |-> ModelNotLoaded(loading_error), calls |-> <<>>, loaded |-> loaded]
    ELSE embed_pipeline(request, loaded, env)

\* the handler of GET /health
health_check(loaded, loading_error) ==
    Response(200, "OK",
        Some([status |-> "ok",
              service |-> "anomaly-detection",
              model_loaded |-> loaded,
              model_error |-> IF ~loaded THEN loading_error ELSE "None"]))

----------------------------------------------------------------------------
(* Inputs.                                                                 *)

Components == {-1, 0, 1}
Embeddings == UNION {[1..n -> Components] : n \in 0..MaxDim}

\* scores of the similarity grid, 0.0 .. 1.0
Scores == {k * SimStep : k \in 0..SimScale}

\* snr and hour arguments of the library functions
SnrDomain == ((0 - SnrPad) * SnrUnit)..((SnrMax + SnrPad) * SnrUnit)
HourDomain == {None} \cup {Some(h) : h \in (0 - HourPad)..(23 + HourPad)}

\* snr and hour values of /compare requests (dB * SnrUnit): the request model
\* validates neither
RequestSnrs == {d * SnrUnit : d \in {-50, -45, -15, 0, 5, 15, 20, 30, 45}}
                   \cup {-1, 15 * SnrUnit - 1, 15 * SnrUnit + 1, 30 * SnrUnit + 1}
RequestHours == {None} \cup {Some(h) : h \in {-1, 0, 5, 6, 7, 9, 10, 17, 18, 19, 21, 22, 23, 24}}
CompareRequests ==
    [baseline : Embeddings, current : Embeddings, snr : RequestSnrs, hour : RequestHours]

Magnitudes == {0, 1, 3, 40}
Audios == {[stft_ok |-> FALSE, magnitude |-> <<>>]}
              \cup {[stft_ok |-> TRUE, magnitude |-> m] :
                        m \in UNION {[1..n -> Magnitudes] : n \in 1..MaxBins}}

EmbedRequests == [audio_url : {"https://a/ok.wav"}, sample_rate : {16000}]
EmbedEnvs ==
    [download_ok : BOOLEAN, from_hparams_ok : BOOLEAN, encode_ok : BOOLEAN,
     audio : Audios, embedding : {<<1, 0>>, <<0, 1>>}]

----------------------------------------------------------------------------
(* The state machine.                                                      *)

Init ==
    /\ phase = "starting"
    /\ model_loaded = FALSE
    /\ model_loading_error = "None"
    /\ routes = AppRoutes
    /\ call = [op |-> "idle"]
    /\ result = Returned(None)
    /\ trace = <<>>

\* lifespan(app), up to its yield
Lifespan ==
    /\ call.op = "idle"
    /\ phase = "starting"
    /\ \E from_hparams_ok \in BOOLEAN :
           LET r == load_model(model_loaded, from_hparams_ok)
           IN  /\ model_loaded' = r.loaded
               /\ model_loading_error' = IF r.raised THEN "load failed" ELSE "None"
               /\ result' = Returned(None)
    /\ phase' = "serving"
    /\ call' = [op |-> "lifespan"]
    /\ trace' = <<>>
    /\ UNCHANGED routes

HealthCheck ==
    /\ call.op = "idle"
    /\ phase = "serving"
    /\ call' = [op |-> "health"]
    /\ result' = health_check(model_loaded, model_loading_error)
    /\ trace' = <<>>
    /\ UNCHANGED <<phase, model_loaded, model_loading_error, routes>>

ExtractEmbedding ==
    /\ call.op = "idle"
    /\ phase = "serving"
    /\ \E request \in EmbedRequests, env \in EmbedEnvs :
           LET r == extract_embedding(request, model_loaded, model_loading_error, env)
           IN  /\ call' = [op |-> "embed", request |-> request]
               /\ result' = r.response
               /\ trace' = r.calls
               /\ model_loaded' = r.loaded
    /\ UNCHANGED <<phase, model_loading_error, routes>>

CompareEmbeddings ==
    /\ call.op = "idle"
    /\ phase = "serving"
    /\ \E request \in CompareRequests :
           LET r == compare_embeddings(request)
           IN  /\ call' = [op |-> "compare", request |-> request]
               /\ result' = r.response
               /\ trace' = r.calls
    /\ UNCHANGED <<phase, model_loaded, model_loading_error, routes>>

\* the library functions called on their own
CallCosineSimilarity ==
    /\ call.op = "idle"
    /\ \E a \in Embeddings, b \in Embeddings :
           /\ call' = [op |-> "cosine_similarity", embedding1 |-> a, embedding2 |-> b]
           /\ result' = cosine_similarity(a, b)
    /\ trace' = <<>>
    /\ UNCHANGED <<phase, model_loaded, model_loading_error, routes>>

CallNoiseNormalization ==
    /\ call.op = "idle"
    /\ \E x \in Scores, snr \in SnrDomain :
           /\ call' = [op |-> "apply_noise_normalization", anomaly_score |-> x, snr |-> snr]
           /\ result' = Returned(apply_noise_normalization(x, snr))
    /\ trace' = <<>>
    /\ UNCHANGED <<phase, model_loaded, model_loading_error, routes>>

CallTimeCompensation ==
    /\ call.op = "idle"
    /\ \E x \in Scores, hour \in HourDomain :
           /\ call' = [op |-> "apply_time_compensation", anomaly_score |-> x, hour |-> hour]
           /\ result' = Returned(apply_time_compensation(x, hour))
    /\ trace' = <<>>
    /\ UNCHANGED <<phase, model_loaded, model_loading_error, routes>>

CallComputeSnr ==
    /\ call.op = "idle"
    /\ \E audio \in Audios :
           /\ call' = [op |-> "compute_snr", audio |-> audio]
           /\ result' = compute_snr(audio)
    /\ trace' = <<>>
    /\ UNCHANGED <<phase, model_loaded, model_loading_error, routes>>

\* the operation is over: its result went to the caller, the event loop (or the
\* calling code) is free for the next one
Deliver ==
    /\ call.op # "idle"
    /\ call' = [op |-> "idle"]
    /\ result' = Returned(None)
    /\ trace' = <<>>
    /\ UNCHANGED <<phase, model_loaded, model_loading_error, routes>>

Next ==
    \/ Lifespan
    \/ HealthCheck
    \/ ExtractEmbedding
    \/ CompareEmbeddings
    \/ CallCosineSimilarity
    \/ CallNoiseNormalization
    \/ CallTimeCompensation
    \/ CallComputeSnr
    \/ Deliver

Spec == Init /\ [][Next]_vars

----------------------------------------------------------------------------
(* Properties.                                                             *)

IsZero(e) == \A i \in 1..Len(e) : e[i] = 0
InUnitInterval(x) == 0 <= x /\ x <= ScoreUnit
CompareDone == call.op = "compare"
CompareOk == CompareDone /\ result.status = 200
SameLength(request) == Len(request.baseline) = Len(request.current)

\* C1: for equal-length embeddings, whatever snr and hour the request carries,
\* /compare returns a score, and the score lies in [0, 1]
C1_ScoreInUnitInterval ==
    (CompareDone /\ SameLength(call.request)) =>
        /\ result.status = 200
        /\ InUnitInterval(result.body[1].score)
        /\ InUnitInterval(result.body[1].normalized)

\* a zero-norm baseline, an snr below -45 dB (the reduction exceeds the score)
\* and an hour outside 0..23
C1_Witness ==
    /\ CompareOk
    /\ Len(call.request.baseline) > 0
    /\ IsZero(call.request.baseline)
    /\ call.request.snr < (0 - 45) * SnrUnit
    /\ call.request.hour = Some(24)
    /\ result.body[1].score = 0

\* C2: on embeddings of different lengths cosine_similarity raises and returns
\* no value, and /compare answers with an error and no score
C2_MismatchIsAnError ==
    /\ (call.op = "cosine_similarity" /\ Len(call.embedding1) # Len(call.embedding2)) =>
           result = Raised("ValueError")
    /\ (CompareDone /\ ~SameLength(call.request)) =>
           /\ result.status = 500
           /\ result.body = None

C2_Witness ==
    /\ call.op = "cosine_similarity"
    /\ Len(call.embedding1) = 1
    /\ Len(call.embedding2) = 2
    /\ result.kind = "raise"

\* C3 (as claimed): the snr field of every /compare result lies in [0, 30]
C3_ResponseSnrInRange ==
    CompareOk =>
        /\ SnrMin * SnrUnit <= result.body[1].snr
        /\ result.body[1].snr <= SnrMax * SnrUnit

\* r is x discounted by at most a quarter, linearly in snr below 15 dB
NoiseDiscountAtMostQuarter(x, snr, r) ==
    /\ 4 * r >= 3 * x
    /\ snr >= SnrThreshold * SnrUnit => r = x
    /\ (0 <= snr /\ snr < SnrThreshold * SnrUnit) =>
           r * (4 * SnrThreshold * SnrUnit) = x * (3 * SnrThreshold * SnrUnit + snr)

\* C4 (as claimed): apply_noise_normalization returns at least 75% of the score,
\* score * (1 - 0.25 * (15 - snr) / 15) below 15 dB and the score itself from 15 dB on,
\* for every snr it is called with, the snr of a /compare request included
C4_NoiseDiscountAtMostQuarter ==
    /\ call.op = "apply_noise_normalization" =>
           NoiseDiscountAtMostQuarter(call.anomaly_score, call.snr, result.value)
    /\ CompareOk =>
           NoiseDiscountAtMostQuarter(trace[3].arg, call.request.snr, trace[3].ret)

\* C5: apply_noise_normalization and apply_time_compensation return a value r with
\* 0 <= r <= x for every score x in [0, 1], every snr and every hour
C5_AdjustmentsNonIncreasing ==
    /\ call.op \in {"apply_noise_normalization", "apply_time_compensation"} =>
           /\ 0 <= result.value
           /\ result.value <= call.anomaly_score
    /\ CompareOk =>
           \A i \in 3..Len(trace) : 0 <= trace[i].ret /\ trace[i].ret <= trace[i].arg

C5_Witness ==
    /\ call.op = "apply_time_compensation"
    /\ call.hour = Some(20)
    /\ call.anomaly_score = ScoreUnit
    /\ result.value < call.anomaly_score

\* C6: apply_time_compensation returns the score for hour None, score * 0.92 for
\* the hours 6..9, score * 0.94 for the hours 18..21 and the score for every other
\* hour; no hour is in both windows
C6_TimeWindows ==
    call.op = "apply_time_compensation" =>
        LET x == call.anomaly_score
            r == result.value
        IN  IF call.hour = None THEN r = x
            ELSE LET h == call.hour[1]
                 IN  /\ h \in 6..9 => 100 * r = 92 * x
                     /\ h \in 18..21 => 100 * r = 94 * x
                     /\ h \notin (6..9) \cup (18..21) => r = x
                     /\ ~(h \in 6..9 /\ h \in 18..21)

C6_Witness ==
    /\ call.op = "apply_time_compensation"
    /\ call.hour = Some(9)
    /\ call.anomaly_score = ScoreUnit
    /\ 100 * result.value = 92 * ScoreUnit

\* the time factor of hour h, in percent
TimeFactorPct(h) == IF h \in 6..9 THEN 8 ELSE IF h \in 18..21 THEN 6 ELSE 0

\* C7: /compare calls cosine_similarity, similarity_to_anomaly,
\* apply_noise_normalization and, when an hour is given,
\* apply_time_compensation, in this order, each on the result of the one before;
\* with snr in [0, 15) and the hour in a window the score is
\* raw_anomaly * (1 - noise_factor) * (1 - time_factor)
C7_PipelineOrder ==
    CompareOk =>
        LET request == call.request
            body == result.body[1]
            fns == [i \in 1..Len(trace) |-> trace[i].fn]
            raw == trace[2].ret
            quarter == 4 * 15 * SnrUnit
        IN  /\ fns = <<"cosine_similarity", "similarity_to_anomaly",
                       "apply_noise_normalization">>
                         \o (IF request.hour # None
                             THEN <<"apply_time_compensation">> ELSE <<>>)
            /\ trace[1].arg = <<request.baseline, request.current>>
            /\ trace[2].arg = trace[1].ret.value
            /\ trace[3].arg = trace[2].ret
            /\ request.hour # None => trace[4].arg = trace[3].ret
            /\ body.score = trace[Len(trace)].ret
            /\ body.raw_similarity = trace[1].ret.value
            /\ (/\ 0 <= request.snr
                /\ request.snr < 15 * SnrUnit
                /\ request.hour # None
                /\ TimeFactorPct(request.hour[1]) > 0) =>
                   /\ raw % quarter = 0
                   /\ 100 * body.score =
                          (raw \div quarter) * (quarter - (15 * SnrUnit - request.snr))
                              * (100 - TimeFactorPct(request.hour[1]))

\* both adjustments apply to a score above zero
C7_Witness ==
    /\ CompareOk
    /\ call.request.snr = 5 * SnrUnit
    /\ call.request.hour = Some(7)
    /\ Len(trace) = 4
    /\ trace[2].ret > 0
    /\ result.body[1].score < trace[3].ret
    /\ trace[3].ret < trace[2].ret

\* C8: when one of two embeddings of equal length is all zero, cosine_similarity
\* returns 0.0 and does not raise; on all other embeddings of equal length it
\* returns a similarity in [-1, 1]
C8_ZeroNormIsOrthogonal ==
    (call.op = "cosine_similarity" /\ Len(call.embedding1) = Len(call.embedding2)) =>
        /\ result.kind = "return"
        /\ (IsZero(call.embedding1) \/ IsZero(call.embedding2)) => result.value = 0
        /\ 0 - ScoreUnit <= result.value
        /\ result.value <= ScoreUnit

C8_Witness ==
    /\ call.op = "cosine_similarity"
    /\ call.embedding1 = <<0, 0>>
    /\ call.embedding2 = <<1, 0>>
    /\ result = Returned(0)

\* C9: compute_snr raises nothing: it returns a value in [0, 30], and 15.0 when
\* the transform failed
C9_SnrNeverRaises ==
    /\ call.op = "compute_snr" =>
           /\ result.kind = "return"
           /\ SnrMin * SnrUnit <= result.value
           /\ result.value <= SnrMax * SnrUnit
           /\ ~call.audio.stft_ok => result.value = 15 * SnrUnit
    /\ (call.op = "embed" /\ Len(trace) = 3) =>
           /\ trace[3].ret.kind = "return"
           /\ SnrMin * SnrUnit <= trace[3].ret.value
           /\ trace[3].ret.value <= SnrMax * SnrUnit
           /\ ~trace[3].arg.stft_ok => trace[3].ret.value = 15 * SnrUnit

C9_Witness ==
    /\ call.op = "compute_snr"
    /\ ~call.audio.stft_ok
    /\ result = Returned(15 * SnrUnit)

\* C10 (as claimed, and as test_startup.py asserts): "/", "/health", "/embed" and
\* "/compare" are all registered route paths
C10_RequiredRoutesRegistered ==
    {"/", "/health", "/embed", "/compare"} \subseteq routes

\* a request to /embed starts being served in this step
EmbedStep == call.op = "idle" /\ call'.op = "embed"
\* a request to one of the three endpoints is served in this step
RequestStep == call.op = "idle" /\ call'.op \in {"health", "embed", "compare"}

\* C11: startup ends with the service serving also when the model load failed;
\* an /embed request served while the model is not loaded is answered 503 without
\* any call to load_audio_from_url, get_embedding or compute_snr, and these are
\* called only by requests served while the model is loaded
C11_EmbedRejectsWithoutModel ==
    [][ /\ (phase = "starting" /\ call'.op = "lifespan") =>
               /\ phase' = "serving"
               /\ ~model_loaded' => model_loading_error' # "None"
        /\ (EmbedStep /\ ~model_loaded) =>
               /\ result'.status = 503
               /\ result'.body = None
               /\ trace' = <<>>
        /\ (EmbedStep /\ trace' # <<>>) => model_loaded
      ]_vars

\* the load failed at startup, the service serves, and /embed answered 503
C11_Witness ==
    /\ phase = "serving"
    /\ ~model_loaded
    /\ model_loading_error = "load failed"
    /\ call.op = "embed"
    /\ result.status = 503
    /\ trace = <<>>

\* C12: while the service serves with the model not loaded, no /health, /embed
\* or /compare request sets the model flag or changes the recorded error; every
\* /embed request gets 503 and /compare still returns a score for embeddings of
\* equal length
C12_ModelUnavailableIsPermanent ==
    [][ (phase = "serving" /\ ~model_loaded /\ RequestStep) =>
            /\ ~model_loaded'
            /\ model_loading_error' = model_loading_error
            /\ phase' = "serving"
            /\ call'.op = "embed" => result'.status = 503
            /\ call'.op = "health" => ~result'.body[1].model_loaded
            /\ (call'.op = "compare" /\ SameLength(call'.request)) =>
                   /\ result'.status = 200
                   /\ InUnitInterval(result'.body[1].score)
      ]_vars

\* after the failed load /compare returned a score above zero
C12_Witness ==
    /\ phase = "serving"
    /\ ~model_loaded
    /\ model_loading_error = "load failed"
    /\ call.op = "compare"
    /\ result.status = 200
    /\ result.body[1].score > 0

====
